---- MODULE Spec2Model ----
(***************************************************************************)
(* ImageCaptcha (python_rucaptcha/image_captcha.py): resolution of the     *)
(* captcha image source, base64 payload encoding, the blocking and the     *)
(* asyncio handler, the "const" image store and its removal in __del__.    *)
(*                                                                         *)
(* Python values are modelled as follows.  None is the empty tuple and any *)
(* other value v is the one-element tuple <<v>>, so that "x is None" and   *)
(* truthiness are computed and not assumed.  bytes are tuples of 0..255,   *)
(* str values that the code computes (the base64 text) are tuples of       *)
(* one-character strings, other str values are TLA+ strings.  A dict is a  *)
(* function from its keys.                                                 *)
(***************************************************************************)
EXTENDS Integers, Sequences, FiniteSets, TLC

\* ------------------------------------------------------------------ bounds
\* longest captcha_base64 argument
MaxLen == 1
\* number of uuid4() tokens the run may draw
MaxUuid == 1

\* ------------------------------------------------------- python primitives
None == <<>>
Some(v) == <<v>>

\* the byte strings of a captcha_base64 argument: the prefixes, up to MaxLen
\* bytes, of a pattern of all-ones, all-zeros and mixed bytes
BytePattern == <<255, 0, 77, 128, 1, 254>>
Bytes == {SubSeq(BytePattern, 1, n) : n \in 0..MaxLen}

\* the 64 characters of the standard base64 alphabet, and the padding
B64Alphabet ==
  << "A","B","C","D","E","F","G","H","I","J","K","L","M","N","O","P",
     "Q","R","S","T","U","V","W","X","Y","Z","a","b","c","d","e","f",
     "g","h","i","j","k","l","m","n","o","p","q","r","s","t","u","v",
     "w","x","y","z","0","1","2","3","4","5","6","7","8","9","+","/" >>
B64Pad == "="

B64Char(n) == B64Alphabet[n + 1]

\* base64.b64encode(s).decode("utf-8"): 3 bytes -> 4 characters, "=" padded
RECURSIVE b64encode(_)
b64encode(s) ==
  IF Len(s) = 0 THEN <<>>
  ELSE IF Len(s) = 1 THEN
    << B64Char(s[1] \div 4), B64Char((s[1] % 4) * 16), B64Pad, B64Pad >>
  ELSE IF Len(s) = 2 THEN
    << B64Char(s[1] \div 4),
       B64Char((s[1] % 4) * 16 + s[2] \div 16),
       B64Char((s[2] % 16) * 4),
       B64Pad >>
  ELSE
    << B64Char(s[1] \div 4),
       B64Char((s[1] % 4) * 16 + s[2] \div 16),
       B64Char((s[2] % 16) * 4 + s[3] \div 64),
       B64Char(s[3] % 64) >> \o b64encode(SubSeq(s, 4, Len(s)))

\* base64.b64decode: the inverse transformation, computed from the alphabet
B64Index(c) == (CHOOSE k \in 1..64 : B64Alphabet[k] = c) - 1

RECURSIVE b64decode(_)
b64decode(t) ==
  IF Len(t) < 4 THEN <<>>
  ELSE
    LET a == B64Index(t[1])
        b == B64Index(t[2])
        rest == b64decode(SubSeq(t, 5, Len(t)))
    IN IF t[3] = B64Pad THEN << a * 4 + b \div 16 >>
       ELSE LET c == B64Index(t[3]) IN
         IF t[4] = B64Pad THEN << a * 4 + b \div 16, (b % 16) * 16 + c \div 4 >>
         ELSE LET d == B64Index(t[4]) IN
           << a * 4 + b \div 16, (b % 16) * 16 + c \div 4, (c % 4) * 64 + d >> \o rest

\* Python truthiness of an Optional[str] argument: None and "" are falsy
TruthyStr(x) == x /= None /\ x[1] /= ""
\* Python truthiness of an Optional[bytes] argument: None and b"" are falsy
TruthyBytes(x) == x /= None /\ Len(x[1]) > 0

\* dict.update({k: v})
update(d, k, v) == [x \in DOMAIN d \cup {k} |-> IF x = k THEN v ELSE d[x]]

\* ------------------------------------------------------------- constants
\* SaveFormatsEnm.TEMP.value / SaveFormatsEnm.CONST.value / ImageCaptchaEnm.BASE64.value
TEMP == "temp"
CONST == "const"
BASE64 == "base64"
NO_CAPTCHA_ERR == "You did not send any file, local link or URL."
\* default of the img_path argument
IMG_PATH == "PythonRuCaptchaImages"

\* the objects of a run: one at a time, each constructed after the one before
\* it was finalized (Inst), or two at once used by concurrent tasks (ConcInst);
\* all of them have the default img_path
Inst == {1}
ConcInst == {1, 2}

\* ------------------------------------------------------------ environment
\* the local files a captcha_file argument may name; any other path is absent
Files == [p \in {"a.png"} |-> <<137, 80, 78, 71, 13>>]
FileArgs == {None, Some(""), Some("a.png"), Some("missing.png")}
Base64Args == {None} \cup {Some(b) : b \in Bytes}
LinkArgs == {None, Some(""), Some("http://host/captcha.jpg")}
\* what a fetch may return
Contents == { <<71, 73, 70>> }
\* the exception a failed fetch raises
FetchError == "ConnectionError"
\* **kwargs of a handler call
KwArgs == {<<"timeout">>}

\* the ResponseSer the base class keeps in self.result
ResultInit ==
  [captchaSolve |-> None, taskId |-> None, error |-> Some(FALSE), errorBody |-> None]
\* what the submission collaborator may answer
Responses ==
  { [captchaSolve |-> Some("W9H5K"), taskId |-> Some("73043008354"),
     error |-> Some(FALSE), errorBody |-> None],
    [captchaSolve |-> None, taskId |-> None,
     error |-> Some(TRUE), errorBody |-> Some("ERROR_ZERO_BALANCE")] }

\* one entry of the record of what a call did: the collaborator or disk operation,
\* its argument, the keyword arguments passed on, and what it answered
Entry(op, arg, kwargs, res) == [op |-> op, arg |-> arg, kwargs |-> kwargs, res |-> res]

\* ResponseSer.dict(exclude_none=...)
dict(result, exclude_none) ==
  IF exclude_none
  THEN [k \in {f \in DOMAIN result : Len(result[f]) > 0} |-> result[k]]
  ELSE [k \in DOMAIN result |-> result[k]]

\* the state of the directory img_path: whether it exists, and its files
NoDir == [exists |-> FALSE, files |-> <<>>]
\* the name f"im-{uuid}.png"
ImageName(u) == [prefix |-> "im-", uuid |-> u, ext |-> ".png"]
\* a file some other program left in the directory
OtherName == [prefix |-> "old", uuid |-> 0, ext |-> ".png"]
OldDir == [exists |-> TRUE, files |-> [n \in {OtherName} |-> <<1>>]]

\* uuid.uuid4(): a token never returned before
uuid4(w) == w.uuid + 1

\* ------------------------------------------------------------ ImageCaptcha
\* __init__
ImageCaptcha(save_format, img_clearing, img_path) ==
  [alive |-> TRUE,
   save_format |-> save_format,
   img_clearing |-> img_clearing,
   img_path |-> img_path,
   post_payload |-> [method |-> BASE64],
   result |-> ResultInit,
   _image_name |-> None]

\* an object that was finalized
Finalized == [ImageCaptcha(TEMP, TRUE, IMG_PATH) EXCEPT !.alive = FALSE]

\* faulty variant: the image name is not generated anew for each image
_image_const_saver_fixed_name(w, self, content, img_path) ==
  LET name == ImageName(1)
  IN [w |-> [w EXCEPT !.obj[self]._image_name = Some(name),
                      !.dir = [exists |-> TRUE, files |-> update(w.dir.files, name, content)]],
      log |-> << Entry("mkdir", <<img_path>>, <<>>, None),
                 Entry("open_wb", <<name>>, <<>>, None) >>]

\* _image_const_saver: mkdir(parents=True, exist_ok=True), a fresh name, open "wb"
_image_const_saver(w, self, content, img_path) ==
  LET u == uuid4(w)
      name == ImageName(u)
  IN [w |-> [w EXCEPT !.uuid = u,
                      !.obj[self]._image_name = Some(name),
                      !.dir = [exists |-> TRUE, files |-> update(w.dir.files, name, content)]],
      log |-> << Entry("mkdir", <<img_path>>, <<>>, None),
                 Entry("open_wb", <<name>>, <<>>, None) >>]

\* _local_image_captcha: open(captcha_file, "rb").read(), which raises when absent
_local_image_captcha(captcha_file) ==
  IF captcha_file \in DOMAIN Files
  THEN [raised |-> FALSE, data |-> Files[captcha_file],
        log |-> << Entry("open_rb", <<captcha_file>>, <<>>, Some(Files[captcha_file])) >>]
  ELSE [raised |-> TRUE, data |-> <<>>,
        log |-> << Entry("open_rb", <<captcha_file>>, <<>>, None) >>]

\* faulty variant: dict.setdefault instead of dict.update, the first body is kept
set_body_setdefault(w, self, content) ==
  IF "body" \in DOMAIN w.obj[self].post_payload
  THEN w
  ELSE [w EXCEPT !.obj[self].post_payload = update(@, "body", b64encode(content))]

\* faulty variant: post_payload is one mapping shared by all objects (a class attribute)
set_body_shared(w, self, content) ==
  [w EXCEPT !.obj = [i \in DOMAIN w.obj |->
      [w.obj[i] EXCEPT !.post_payload = update(@, "body", b64encode(content))]]]

\* self.post_payload.update({"body": base64.b64encode(content).decode("utf-8")})
set_body(w, self, content) ==
  [w EXCEPT !.obj[self].post_payload = update(@, "body", b64encode(content))]

\* the outcome of a handler call: the state it leaves, what it did, what it
\* returned (None when it raised)
Outcome(w, log, ret, raised) == [w |-> w, log |-> log, ret |-> ret, raised |-> raised]

\* ---------------------------------------------------- blocking collaborators
\* BaseCaptcha.url_open(url, **kwargs).content: raises, or returns the content
url_open(url, kwargs) ==
  { [raised |-> TRUE, error |-> FetchError, content |-> <<>>,
     log |-> << Entry("url_open", <<url>>, kwargs, None) >>] }
  \cup
  { [raised |-> FALSE, error |-> "", content |-> b,
     log |-> << Entry("url_open", <<url>>, kwargs, Some(b)) >>] : b \in Contents }

\* BaseCaptcha._processing_response(**kwargs): sends self.post_payload, keeps the
\* answer in self.result and returns self.result.dict()
_processing_response(w, self, kwargs, log) ==
  { Outcome([w EXCEPT !.obj[self].result = resp],
            log \o << Entry("_processing_response", w.obj[self].post_payload,
                            kwargs, Some(resp)) >>,
            Some(dict(resp, FALSE)), FALSE) : resp \in Responses }

\* ------------------------------------------------------------ captcha_handler
\* faulty variant: the URL is looked at before the raw bytes
source_of_link_first(captcha_link, captcha_file, captcha_base64) ==
  IF TruthyStr(captcha_file) THEN "file"
  ELSE IF TruthyStr(captcha_link) THEN "link"
  ELSE IF TruthyBytes(captcha_base64) THEN "base64"
  ELSE "none"

\* the if / elif chain of captcha_handler: which branch runs
source_of(captcha_link, captcha_file, captcha_base64) ==
  IF TruthyStr(captcha_file) THEN "file"
  ELSE IF TruthyBytes(captcha_base64) THEN "base64"
  ELSE IF TruthyStr(captcha_link) THEN "link"
  ELSE "none"

\* faulty variant: the failure of the fetch is raised again
fetch_failed_reraise(w, self, error, log) ==
  Outcome(w, log, None, TRUE)

\* faulty variant: the failed fetch is serialized with its unset fields
fetch_failed_with_none(w, self, error, log) ==
  LET w1 == [w EXCEPT !.obj[self].result.error = Some(TRUE),
                      !.obj[self].result.errorBody = Some(error)]
  IN Outcome(w1, log, Some(dict(w1.obj[self].result, FALSE)), FALSE)

\* except Exception as error: ... return self.result.dict(exclude_none=True)
fetch_failed(w, self, error, log) ==
  LET w1 == [w EXCEPT !.obj[self].result.error = Some(TRUE),
                      !.obj[self].result.errorBody = Some(error)]
  IN Outcome(w1, log, Some(dict(w1.obj[self].result, TRUE)), FALSE)

\* faulty variant: the error flag is not set
no_captcha_no_flag(w, self) ==
  LET w1 == [w EXCEPT !.obj[self].result.errorBody = Some(NO_CAPTCHA_ERR)]
  IN Outcome(w1, <<>>, Some(dict(w1.obj[self].result, FALSE)), FALSE)

\* else: none of the parameters are passed ... return self.result.dict()
no_captcha(w, self) ==
  LET w1 == [w EXCEPT !.obj[self].result.error = Some(TRUE),
                      !.obj[self].result.errorBody = Some(NO_CAPTCHA_ERR)]
  IN Outcome(w1, <<>>, Some(dict(w1.obj[self].result, FALSE)), FALSE)

\* captcha_handler: the outcomes of one blocking call, one for each way the
\* collaborators it reaches may answer
captcha_handler(w, self, captcha_link, captcha_file, captcha_base64, kwargs) ==
  LET branch == source_of(captcha_link, captcha_file, captcha_base64) IN
  CASE branch = "file" ->
         LET rd == _local_image_captcha(captcha_file[1]) IN
         IF rd.raised
         THEN { Outcome(w, rd.log, None, TRUE) }
         ELSE _processing_response(set_body(w, self, rd.data), self, kwargs, rd.log)
    [] branch = "base64" ->
         _processing_response(set_body(w, self, captcha_base64[1]), self, kwargs, <<>>)
    [] branch = "link" ->
         UNION { IF f.raised
                 THEN { fetch_failed(w, self, f.error, f.log) }
                 ELSE LET sv == IF w.obj[self].save_format = CONST
                                THEN _image_const_saver(w, self, f.content,
                                                        w.obj[self].img_path)
                                ELSE [w |-> w, log |-> <<>>]
                      IN _processing_response(set_body(sv.w, self, f.content), self,
                                              kwargs, f.log \o sv.log)
                 : f \in url_open(captcha_link[1], kwargs) }
    [] OTHER -> { no_captcha(w, self) }

\* -------------------------------------------------------- aio_captcha_handler
\* BaseCaptcha.aio_url_read(url, **kwargs): raises, or returns the content
aio_url_read(url, kwargs) ==
  { [raised |-> TRUE, error |-> FetchError, content |-> <<>>,
     log |-> << Entry("aio_url_read", <<url>>, kwargs, None) >>] }
  \cup
  { [raised |-> FALSE, error |-> "", content |-> b,
     log |-> << Entry("aio_url_read", <<url>>, kwargs, Some(b)) >>] : b \in Contents }

\* BaseCaptcha._aio_processing_response(): as _processing_response, without kwargs
_aio_processing_response(w, self, log) ==
  { Outcome([w EXCEPT !.obj[self].result = resp],
            log \o << Entry("_aio_processing_response", w.obj[self].post_payload,
                            <<>>, Some(resp)) >>,
            Some(dict(resp, FALSE)), FALSE) : resp \in Responses }

\* the frame of one aio_captcha_handler call: where it is suspended, its
\* arguments, and what it did so far
Frame(pc, self, captcha_link, captcha_file, captcha_base64, kwargs) ==
  [pc |-> pc, self |-> self, captcha_link |-> captcha_link,
   captcha_file |-> captcha_file, captcha_base64 |-> captcha_base64,
   kwargs |-> kwargs, log |-> <<>>, ret |-> None, raised |-> FALSE]

\* aio_captcha_handler, except Exception as error: ... dict(exclude_none=True)
aio_fetch_failed(w, self, error) ==
  LET w1 == [w EXCEPT !.obj[self].result.error = Some(TRUE),
                      !.obj[self].result.errorBody = Some(error)]
  IN [w |-> w1, ret |-> Some(dict(w1.obj[self].result, TRUE))]

\* faulty variant: the asyncio handler alone serializes without the unset fields
aio_no_captcha_exclude_none(w, self) ==
  LET w1 == [w EXCEPT !.obj[self].result.error = Some(TRUE),
                      !.obj[self].result.errorBody = Some(NO_CAPTCHA_ERR)]
  IN [w |-> w1, ret |-> Some(dict(w1.obj[self].result, TRUE))]

\* aio_captcha_handler, else: none of the parameters are passed
aio_no_captcha(w, self) ==
  LET w1 == [w EXCEPT !.obj[self].result.error = Some(TRUE),
                      !.obj[self].result.errorBody = Some(NO_CAPTCHA_ERR)]
  IN [w |-> w1, ret |-> Some(dict(w1.obj[self].result, FALSE))]

\* aio_captcha_handler from its entry to its first await (or its return)
aio_enter(w, fr) ==
  IF TruthyStr(fr.captcha_file) THEN
    LET rd == _local_image_captcha(fr.captcha_file[1]) IN
    IF rd.raised
    THEN [w |-> w, fr |-> [fr EXCEPT !.pc = "done", !.log = rd.log, !.raised = TRUE]]
    ELSE [w |-> set_body(w, fr.self, rd.data),
          fr |-> [fr EXCEPT !.pc = "submit", !.log = rd.log]]
  ELSE IF TruthyBytes(fr.captcha_base64) THEN
    [w |-> set_body(w, fr.self, fr.captcha_base64[1]), fr |-> [fr EXCEPT !.pc = "submit"]]
  ELSE IF TruthyStr(fr.captcha_link) THEN
    [w |-> w, fr |-> [fr EXCEPT !.pc = "fetch"]]
  ELSE
    LET e == aio_no_captcha(w, fr.self) IN
    [w |-> e.w, fr |-> [fr EXCEPT !.pc = "done", !.ret = e.ret]]

\* aio_captcha_handler from the completion of "await self.aio_url_read" to the
\* next await (or its return)
aio_resume(w, fr) ==
  { IF f.raised
    THEN LET e == aio_fetch_failed(w, fr.self, f.error) IN
         [w |-> e.w, fr |-> [fr EXCEPT !.pc = "done", !.log = f.log, !.ret = e.ret]]
    ELSE LET sv == IF w.obj[fr.self].save_format = CONST
                   THEN _image_const_saver(w, fr.self, f.content, w.obj[fr.self].img_path)
                   ELSE [w |-> w, log |-> <<>>]
         IN [w |-> set_body(sv.w, fr.self, f.content),
             fr |-> [fr EXCEPT !.pc = "submit", !.log = f.log \o sv.log]]
    : f \in aio_url_read(fr.captcha_link[1], fr.kwargs) }

\* return await self._aio_processing_response()
aio_submit(w, fr) ==
  { [w |-> o.w, fr |-> [fr EXCEPT !.pc = "done", !.log = o.log, !.ret = o.ret]]
    : o \in _aio_processing_response(w, fr.self, fr.log) }

\* aio_captcha_handler run to completion with no other task in between
aio_captcha_handler(w, self, captcha_link, captcha_file, captcha_base64, kwargs) ==
  LET s1 == aio_enter(w, Frame("start", self, captcha_link, captcha_file,
                               captcha_base64, kwargs))
      S2 == IF s1.fr.pc = "fetch" THEN aio_resume(s1.w, s1.fr) ELSE {s1}
      S3 == UNION { IF s.fr.pc = "submit" THEN aio_submit(s.w, s.fr) ELSE {s} : s \in S2 }
  IN { Outcome(s.w, s.fr.log, s.fr.ret, s.fr.raised) : s \in S3 }

\* -------------------------------------------------------------------- __del__
\* faulty variant: img_clearing is not looked at
__del__always_clears(w, self) ==
  LET o == w.obj[self]
      gone == [w EXCEPT !.obj[self] = Finalized]
  IN
  IF o.save_format = CONST
  THEN IF w.dir.exists
       THEN Outcome([gone EXCEPT !.dir = NoDir],
                    << Entry("rmtree", <<o.img_path>>, <<>>, Some(DOMAIN w.dir.files)) >>,
                    None, FALSE)
       ELSE Outcome(gone, << Entry("rmtree", <<o.img_path>>, <<>>, None) >>, None, TRUE)
  ELSE Outcome(gone, <<>>, None, FALSE)

\* shutil.rmtree(self.img_path) raises FileNotFoundError when the directory is absent
__del__(w, self) ==
  LET o == w.obj[self]
      gone == [w EXCEPT !.obj[self] = Finalized]
  IN
  IF o.save_format = CONST /\ o.img_clearing
  THEN IF w.dir.exists
       THEN Outcome([gone EXCEPT !.dir = NoDir],
                    << Entry("rmtree", <<o.img_path>>, <<>>, Some(DOMAIN w.dir.files)) >>,
                    None, FALSE)
       ELSE Outcome(gone, << Entry("rmtree", <<o.img_path>>, <<>>, None) >>, None, TRUE)
  ELSE Outcome(gone, <<>>, None, FALSE)

\* ------------------------------------------------------------------ state
\* world: the objects, the directory img_path and the uuid source
\* last:  the last operation: its arguments, the object's configuration and
\*        _image_name before it, what it did and what it returned
\* tasks: the frames of the concurrent tasks running aio_captcha_handler
\* overlap: whether a task's current call ran while another call was in flight
\*        on the same object
VARIABLES world, last, tasks, overlap
vars == <<world, last, tasks, overlap>>

NoArgs == [captcha_link |-> None, captcha_file |-> None, captcha_base64 |-> None]
Args == [captcha_link : LinkArgs, captcha_file : FileArgs, captcha_base64 : Base64Args]

Op(op, self, args, cfg, out) ==
  [op |-> op, self |-> self, args |-> args,
   save_format |-> cfg.save_format, img_clearing |-> cfg.img_clearing,
   _image_name |-> cfg._image_name,
   log |-> out.log, ret |-> out.ret, raised |-> out.raised]

Tasks == {1, 2}
Idle == [Frame("idle", 1, None, None, None, <<>>) EXCEPT !.raised = FALSE]

\* objects constructed with the default arguments; img_path absent or left over
Init ==
  /\ \E d \in {NoDir, OldDir} :
       world = [obj |-> [i \in Inst |-> ImageCaptcha(TEMP, TRUE, IMG_PATH)],
                dir |-> d, uuid |-> 0]
  /\ last = Op("start", 1, NoArgs, ImageCaptcha(TEMP, TRUE, IMG_PATH),
               Outcome(0, <<>>, None, FALSE))
  /\ tasks = [t \in Tasks |-> Idle]
  /\ overlap = [t \in Tasks |-> FALSE]

\* a new object takes the place of a finalized one
Construct(i) ==
  /\ ~world.obj[i].alive
  /\ \E fmt \in {TEMP, CONST}, clr \in BOOLEAN :
       /\ world' = [world EXCEPT !.obj[i] = ImageCaptcha(fmt, clr, IMG_PATH)]
       /\ last' = Op("__init__", i, NoArgs, world'.obj[i], Outcome(0, <<>>, None, FALSE))
  /\ UNCHANGED <<tasks, overlap>>

CallSync(i) ==
  /\ world.obj[i].alive
  /\ \E a \in Args, kw \in KwArgs :
       \E out \in captcha_handler(world, i, a.captcha_link, a.captcha_file,
                                  a.captcha_base64, kw) :
          /\ out.w.uuid <= MaxUuid
          /\ world' = out.w
          /\ last' = Op("captcha_handler", i, a, world.obj[i], out)
  /\ UNCHANGED <<tasks, overlap>>

CallAio(i) ==
  /\ world.obj[i].alive
  /\ \E a \in Args, kw \in KwArgs :
       \E out \in aio_captcha_handler(world, i, a.captcha_link, a.captcha_file,
                                      a.captcha_base64, kw) :
          /\ out.w.uuid <= MaxUuid
          /\ world' = out.w
          /\ last' = Op("aio_captcha_handler", i, a, world.obj[i], out)
  /\ UNCHANGED <<tasks, overlap>>

Teardown(i) ==
  /\ world.obj[i].alive
  /\ LET out == __del__(world, i)
     IN /\ world' = out.w
        /\ last' = Op("__del__", i, NoArgs, world.obj[i], out)
  /\ UNCHANGED <<tasks, overlap>>

Next ==
  \/ \E i \in Inst : Construct(i)
  \/ \E i \in Inst : CallSync(i)
  \/ \E i \in Inst : CallAio(i)
  \/ \E i \in Inst : Teardown(i)

Spec == Init /\ [][Next]_vars

\* ------------------------------------------------- concurrent calls (asyncio)
\* the calls the concurrent tasks make: one source each, or none
ConcArgs ==
  { [NoArgs EXCEPT !.captcha_file = Some("a.png")],
    [NoArgs EXCEPT !.captcha_base64 = Some(<<255>>)],
    [NoArgs EXCEPT !.captcha_link = Some("http://host/captcha.jpg")],
    NoArgs }

InFlight(fr) == fr.pc \in {"fetch", "submit"}

InitConc ==
  /\ world = [obj |-> [i \in ConcInst |-> ImageCaptcha(TEMP, TRUE, IMG_PATH)],
              dir |-> NoDir, uuid |-> 0]
  /\ last = Op("start", 1, NoArgs, ImageCaptcha(TEMP, TRUE, IMG_PATH),
               Outcome(0, <<>>, None, FALSE))
  /\ tasks = [t \in Tasks |-> Idle]
  /\ overlap = [t \in Tasks |-> FALSE]

\* a task calls aio_captcha_handler and runs to its first await
TaskStart(t) ==
  /\ ~InFlight(tasks[t])
  /\ \E i \in ConcInst, a \in ConcArgs, kw \in KwArgs :
       LET s == aio_enter(world, Frame("start", i, a.captcha_link, a.captcha_file,
                                       a.captcha_base64, kw))
           others == {u \in Tasks \ {t} : InFlight(tasks[u]) /\ tasks[u].self = i}
       IN /\ world' = s.w
          /\ tasks' = [tasks EXCEPT ![t] = s.fr]
          /\ overlap' = [u \in Tasks |->
                           IF u = t THEN others /= {}
                           ELSE overlap[u] \/ u \in others]
  /\ UNCHANGED last

\* the awaited aio_url_read of a task completes
TaskFetched(t) ==
  /\ tasks[t].pc = "fetch"
  /\ \E s \in aio_resume(world, tasks[t]) :
       /\ s.w.uuid <= MaxUuid
       /\ world' = s.w
       /\ tasks' = [tasks EXCEPT ![t] = s.fr]
  /\ UNCHANGED <<last, overlap>>

\* the awaited _aio_processing_response of a task sends the payload and completes
TaskSubmitted(t) ==
  /\ tasks[t].pc = "submit"
  /\ \E s \in aio_submit(world, tasks[t]) :
       /\ world' = s.w
       /\ tasks' = [tasks EXCEPT ![t] = s.fr]
  /\ UNCHANGED <<last, overlap>>

NextConc ==
  \/ \E t \in Tasks : TaskStart(t)
  \/ \E t \in Tasks : TaskFetched(t)
  \/ \E t \in Tasks : TaskSubmitted(t)

SpecConc == InitConc /\ [][NextConc]_vars

\* ====================================================================
\* Properties
\* ====================================================================
HandlerOps == {"captcha_handler", "aio_captcha_handler"}
FetchOps == {"url_open", "aio_url_read"}
SubmitOps == {"_processing_response", "_aio_processing_response"}
DiskOps == {"open_rb", "mkdir", "open_wb", "rmtree"}

\* the entries of a call's record made by the operations ops
Entries(log, ops) == {k \in DOMAIN log : log[k].op \in ops}
Did(log, ops) == Entries(log, ops) /= {}
The(log, ops) == log[CHOOSE k \in Entries(log, ops) : TRUE]
FetchFailed(log) == Did(log, FetchOps) /\ The(log, FetchOps).res = None
FetchOk(log) == Did(log, FetchOps) /\ The(log, FetchOps).res /= None

\* an input counts as supplied when it is neither None nor empty
GivenFile(a) == a.captcha_file /= None /\ a.captcha_file /= Some("")
GivenBytes(a) == a.captcha_base64 /= None /\ a.captcha_base64 /= Some(<<>>)
GivenLink(a) == a.captcha_link /= None /\ a.captcha_link /= Some("")
NoInput(a) == ~GivenFile(a) /\ ~GivenBytes(a) /\ ~GivenLink(a)

\* the bytes of the source that the precedence file > bytes > URL selects
SelectedBytes(a, log) ==
  IF GivenFile(a) THEN Files[a.captcha_file[1]]
  ELSE IF GivenBytes(a) THEN a.captcha_base64[1]
  ELSE The(log, FetchOps).res[1]

\* base64 texts of the model's byte strings, as the Python library computes them
KnownBase64 ==
  { << <<137, 80, 78, 71, 13>>, <<"i","V","B","O","R","w","0","=">> >>,
    << <<71, 73, 70>>, <<"R","0","l","G">> >>,
    << <<255>>, <<"/","w","=","=">> >>,
    << <<255, 0>>, <<"/","w","A","=">> >>,
    << <<255, 0, 77>>, <<"/","w","B","N">> >> }

\* C1: the source a handler call uses is chosen by the precedence file path >
\* raw bytes > URL among the inputs that are non-empty: with a file supplied the
\* file is read and nothing is fetched, whatever else is supplied; with no file
\* and raw bytes supplied nothing is read or fetched and the bytes are sent; the
\* URL is fetched only when it is the only input supplied.
C1_Precedence ==
  last.op \in HandlerOps =>
    LET a == last.args
        lg == last.log
    IN /\ GivenFile(a) =>
            /\ Did(lg, {"open_rb"})
            /\ The(lg, {"open_rb"}).arg = a.captcha_file
            /\ ~Did(lg, FetchOps)
            /\ Did(lg, SubmitOps) =>
                 The(lg, SubmitOps).arg.body = b64encode(Files[a.captcha_file[1]])
       /\ (~GivenFile(a) /\ GivenBytes(a)) =>
            /\ ~Did(lg, {"open_rb"})
            /\ ~Did(lg, FetchOps)
            /\ Did(lg, SubmitOps)
            /\ The(lg, SubmitOps).arg.body = b64encode(a.captcha_base64[1])
       /\ (~GivenFile(a) /\ ~GivenBytes(a) /\ GivenLink(a)) =>
            /\ ~Did(lg, {"open_rb"})
            /\ Did(lg, FetchOps)
            /\ The(lg, FetchOps).arg = a.captcha_link
            /\ Did(lg, SubmitOps) =>
                 The(lg, SubmitOps).arg.body = b64encode(The(lg, FetchOps).res[1])
       /\ NoInput(a) => lg = <<>>

\* all three inputs supplied: the file was read and sent, nothing was fetched
C1_Witness ==
  /\ last.op \in HandlerOps
  /\ GivenFile(last.args) /\ GivenBytes(last.args) /\ GivenLink(last.args)
  /\ Did(last.log, {"open_rb"})
  /\ Did(last.log, SubmitOps)
  /\ ~Did(last.log, FetchOps)

\* C2: a handler call with no file path, no raw bytes and no URL returns, without
\* raising, error = true with the fixed message, and does nothing else: no fetch,
\* no file read or written, no submission.
C2_NoInput ==
  (last.op \in HandlerOps /\ NoInput(last.args)) =>
    /\ ~last.raised
    /\ last.ret /= None
    /\ last.ret[1].error = Some(TRUE)
    /\ last.ret[1].errorBody = Some(NO_CAPTCHA_ERR)
    /\ last.log = <<>>

C2_Witness ==
  /\ last.op = "aio_captcha_handler"
  /\ last.args.captcha_file = Some("") /\ last.args.captcha_base64 = Some(<<>>)
  /\ last.args.captcha_link = None
  /\ last.ret /= None
  /\ last.ret[1].errorBody = Some(NO_CAPTCHA_ERR)

\* C3: when the URL is the source and the fetch fails, the call does not raise; it
\* returns error = true with the captured failure, writes no file (also in "const"
\* mode), leaves the payload as it was and does not reach the submission.
C3_FetchFailure ==
  [][ (last'.op \in HandlerOps /\ FetchFailed(last'.log)) =>
        /\ ~last'.raised
        /\ last'.ret /= None
        /\ last'.ret[1].error = Some(TRUE)
        /\ last'.ret[1].errorBody = Some(FetchError)
        /\ ~Did(last'.log, DiskOps)
        /\ ~Did(last'.log, SubmitOps)
        /\ world'.dir = world.dir
        /\ world'.obj[last'.self].post_payload = world.obj[last'.self].post_payload
    ]_vars

\* a failed fetch in "const" mode, after an earlier call had set a body
C3_Witness ==
  /\ last.op \in HandlerOps
  /\ FetchFailed(last.log)
  /\ last.save_format = CONST
  /\ "body" \in DOMAIN world.obj[last.self].post_payload
  /\ last.ret /= None

\* the outcome of a call with the names of the two variants of the fetch and of
\* the submission identified, and the options of the submission left out
Neutral(op) ==
  IF op \in FetchOps THEN "fetch" ELSE IF op \in SubmitOps THEN "submit" ELSE op
NeutralEntry(e) ==
  [op |-> Neutral(e.op), arg |-> e.arg,
   kwargs |-> IF e.op \in SubmitOps THEN <<>> ELSE e.kwargs, res |-> e.res]
NeutralOutcome(o) ==
  [w |-> o.w, log |-> [k \in DOMAIN o.log |-> NeutralEntry(o.log[k])],
   ret |-> o.ret, raised |-> o.raised]

\* C4: from every reachable state of an object and for all inputs, the blocking
\* and the asyncio handler have the same outcomes for the same answers of the
\* fetch and of the submission: the same returned mapping, the same payload and
\* result left in the object, the same directory; they differ in the variant of
\* the collaborators they call.
C4_Parity ==
  \A i \in DOMAIN world.obj :
    world.obj[i].alive =>
      \A a \in Args, kw \in KwArgs :
        { NeutralOutcome(o) : o \in captcha_handler(world, i, a.captcha_link,
                                  a.captcha_file, a.captcha_base64, kw) }
        = { NeutralOutcome(o) : o \in aio_captcha_handler(world, i, a.captcha_link,
                                  a.captcha_file, a.captcha_base64, kw) }

\* an asyncio call that fetched, saved and submitted, where the same call of the
\* blocking handler is possible too
C4_Witness ==
  /\ last.op = "aio_captcha_handler"
  /\ Did(last.log, {"aio_url_read"})
  /\ Did(last.log, {"open_wb"})
  /\ Did(last.log, {"_aio_processing_response"})
  /\ world.obj[last.self].alive

\* C5: whenever a call reaches the submission, the body in the payload is the
\* standard base64 text of the bytes of the source selected for this call, and
\* decoding it gives these bytes back, whatever calls came before.
C5_BodyIsBase64 ==
  (last.op \in HandlerOps /\ Did(last.log, SubmitOps)) =>
    LET payload == The(last.log, SubmitOps).arg
        bytes == SelectedBytes(last.args, last.log)
    IN /\ "body" \in DOMAIN payload
       /\ payload.body = b64encode(bytes)
       /\ b64decode(payload.body) = bytes
       /\ \A kb \in KnownBase64 : kb[1] = bytes => payload.body = kb[2]

\* one raw byte was submitted, padded to one base64 group
C5_Witness ==
  /\ last.op \in HandlerOps
  /\ Did(last.log, SubmitOps)
  /\ ~GivenFile(last.args)
  /\ last.args.captcha_base64 = Some(<<255>>)
  /\ The(last.log, SubmitOps).arg.body = <<"/","w","=","=">>

C7_Teardown ==
  [][ last'.op = "__del__" =>
        IF last'.save_format = CONST /\ last'.img_clearing
        THEN world'.dir = NoDir
        ELSE world'.dir = world.dir
    ]_vars

\* the directory removed held a file that was there before and an image that an
\* earlier object had saved; the finalized object had saved none
C7_Witness ==
  /\ last.op = "__del__"
  /\ last._image_name = None
  /\ last.save_format = CONST /\ last.img_clearing
  /\ Did(last.log, {"rmtree"})
  /\ ~last.raised
  /\ OtherName \in The(last.log, {"rmtree"}).res[1]
  /\ \E n \in The(last.log, {"rmtree"}).res[1] : n.prefix = "im-"
  /\ world.dir = NoDir

AllFields == DOMAIN ResultInit

\* C8 as stated: the mapping of a no-input call holds no unset field, and every
\* other returned mapping holds all fields.
C8_Original ==
  (last.op \in HandlerOps /\ last.ret /= None) =>
    IF NoInput(last.args)
    THEN \A k \in DOMAIN last.ret[1] : Len(last.ret[1][k]) > 0
    ELSE DOMAIN last.ret[1] = AllFields

\* C8, amended: the locally made error result is serialized without its unset
\* fields in the failed-fetch path, and only there: the mapping returned for a
\* failed fetch holds exactly the set fields of the result, the mapping returned
\* for a no-input call holds all fields, the unset ones as None.
C8_Amended ==
  (last.op \in HandlerOps /\ last.ret /= None) =>
    LET ret == last.ret[1]
        res == world.obj[last.self].result
    IN /\ FetchFailed(last.log) =>
            /\ DOMAIN ret = {k \in AllFields : Len(res[k]) > 0}
            /\ \A k \in DOMAIN ret : ret[k] = res[k]
       /\ NoInput(last.args) =>
            /\ DOMAIN ret = AllFields
            /\ \A k \in AllFields : ret[k] = res[k]

\* a failed fetch returned error and errorBody alone
C8_Witness ==
  /\ last.op \in HandlerOps
  /\ FetchFailed(last.log)
  /\ last.ret /= None
  /\ DOMAIN last.ret[1] = {"error", "errorBody"}

FrameArgs(fr) ==
  [captcha_link |-> fr.captcha_link, captcha_file |-> fr.captcha_file,
   captcha_base64 |-> fr.captcha_base64]
Submitted(fr) == fr.pc = "done" /\ Did(fr.log, SubmitOps)
SentBody(fr) == The(fr.log, SubmitOps).arg.body
OwnBody(fr) == b64encode(SelectedBytes(FrameArgs(fr), fr.log))

\* C9: the body submitted for a call differs from the body of the call's own
\* source only when the call ran while another call was in flight on the same
\* object; calls on objects of their own, and calls that follow one another on
\* one object, submit their own body.
C9_CrossOnlyWhenConcurrent ==
  \A t \in Tasks :
    (Submitted(tasks[t]) /\ SentBody(tasks[t]) /= OwnBody(tasks[t])) => overlap[t]

\* two calls in flight on one object: the body submitted for one of them is the
\* body the other one wrote
C9_Witness ==
  \E t \in Tasks, u \in Tasks :
    /\ t /= u
    /\ Submitted(tasks[t])
    /\ tasks[u].self = tasks[t].self
    /\ tasks[u].pc \in {"submit", "done"}
    /\ ~NoInput(FrameArgs(tasks[u]))
    /\ ~tasks[u].raised
    /\ SentBody(tasks[t]) /= OwnBody(tasks[t])
    /\ SentBody(tasks[t]) = OwnBody(tasks[u])

\* C10: finalizing an object in "const" mode with img_clearing set never raises.
C10_TeardownNeverRaises ==
  (last.op = "__del__" /\ last.save_format = CONST /\ last.img_clearing) => ~last.raised
====
